---- MODULE Spec2Model ----
(***************************************************************************)
(* Keratoconus severity pipeline: the synthetic data generator, the CSV    *)
(* stages (preprocessing, feature selection), the trainer, the evaluator,  *)
(* the orchestrator run_pipeline.main and the Streamlit prediction page.   *)
(*                                                                         *)
(* Numbers.  A float64 is modelled by a binary float with a MantBits-bit   *)
(* significand, held as an integer count of 2^-FracBits units; every       *)
(* arithmetic result is rounded to nearest-even.  to_csv writes the        *)
(* shortest decimal text that identifies the float (Python's repr);        *)
(* read_csv reads it back with pandas' default C converter                 *)
(* (float_precision=None, the "high" converter and not the "round_trip"    *)
(* one): it accumulates at most MaxDigits digits in a float, rounding at   *)
(* every step, and then divides by the power of ten.  MantBits = 13 and    *)
(* MaxDigits = 5 stand to each other as 53 and 17 do                       *)
(* (10^3 < 2^13 < 10^4 as 10^15 < 2^53 < 10^16).                           *)
(***************************************************************************)
EXTENDS Integers, Sequences, FiniteSets, Bags, TLC

\* ------------------------------------------------------------------ bounds
\* rows per severity class written by data_generator.main (the program uses 130)
MainNPerClass == 6
\* largest n_per_class a caller of the generator passes
MaxNPerClass == 2
\* calls of generate_dataset recorded by the generator's callers
MaxCalls == 2
\* pipeline processes started one after the other
MaxRuns == 2
\* script runs of the Streamlit page
MaxAppRuns == 2
\* get_severity_info is applied to the stages -MaxStage..MaxStage
MaxStage == 6

\* ------------------------------------------------------- program constants
MainRandomState == 42
NSplits == 6
MantBits == 13
FracBits == 10
MaxDigits == 5
RngMod == 1024

\* ------------------------------------------------------------- arithmetic
Pow2(n) == 2 ^ n
Pow10(n) == 10 ^ n
Unit == Pow2(FracBits)

\* a / b rounded to the nearest integer, ties to even
RoundHalfEven(a, b) ==
    LET q == a \div b
        r == a % b
    IN  IF 2 * r > b \/ (2 * r = b /\ q % 2 = 1) THEN q + 1 ELSE q

\* the largest e >= 0 with den * 2^(MantBits + e - 1) <= a (0 when there is none)
RECURSIVE ExpFrom(_, _, _)
ExpFrom(a, den, e) ==
    IF den * Pow2(MantBits + e) <= a THEN ExpFrom(a, den, e + 1) ELSE e
Exponent(a, den) == ExpFrom(a, den, 0)

\* the float nearest to num / den, in units of 2^-FracBits
RoundFloat(num, den) ==
    LET a == num * Unit
        g == Pow2(Exponent(a, den))
    IN  RoundHalfEven(a, den * g) * g

\* the float nearest to the integer n, as an integer
RoundInt(n) ==
    LET g == Pow2(Exponent(n, 1))
    IN  RoundHalfEven(n, g) * g

\* ------------------------------------------------------------------- text
\* A cell of a CSV file is a sequence of characters: the digits 0..9 and Dot.
Dot == 10

RECURSIVE DigitsOf(_)
DigitsOf(n) == IF n < 10 THEN <<n>> ELSE Append(DigitsOf(n \div 10), n % 10)

\* str(int)
FormatInt(n) == DigitsOf(n)

RECURSIVE PadZeros(_, _)
PadZeros(ds, len) == IF Len(ds) >= len THEN ds ELSE PadZeros(<<0>> \o ds, len)

\* the decimal n / 10^k written with k digits after the point
DecimalText(n, k) ==
    LET ds == PadZeros(DigitsOf(n), k + 1)
        cut == Len(ds) - k
    IN  SubSeq(ds, 1, cut) \o <<Dot>> \o SubSeq(ds, cut + 1, Len(ds))

\* the k-decimal number nearest to the float x
Nearest(x, k) == RoundHalfEven(x * Pow10(k), Unit)

\* the digits after the point of repr(float): the fewest (at least one, repr
\* writes "520.0") whose nearest decimal is read back as x by a correctly
\* rounding reader
RECURSIVE DecimalsFrom(_, _)
DecimalsFrom(x, k) ==
    IF k >= MaxDigits - 1 \/ RoundFloat(Nearest(x, k), Pow10(k)) = x
    THEN k
    ELSE DecimalsFrom(x, k + 1)

\* repr(float), as DataFrame.to_csv writes a float64 cell
FormatFloat(x) ==
    LET k == DecimalsFrom(x, 1)
    IN  DecimalText(Nearest(x, k), k)
\* read_csv's integer conversion of a cell without a point
RECURSIVE ParseIntFrom(_, _, _)
ParseIntFrom(t, i, acc) ==
    IF i > Len(t) THEN acc ELSE ParseIntFrom(t, i + 1, acc * 10 + t[i])
ParseInt(t) == ParseIntFrom(t, 1, 0)

\* read_csv's float conversion of a cell: the digits before and after the
\* point are accumulated into a float, number = number * 10. + digit, for at
\* most MaxDigits digits (further decimals are skipped), and the result is
\* number / 10^decimals; both operations round.
RECURSIVE ParseFloatFrom(_, _, _, _, _, _)
ParseFloatFrom(t, i, number, ndigits, decimals, seenDot) ==
    IF i > Len(t) THEN RoundFloat(number, Pow10(decimals))
    ELSE IF t[i] = Dot THEN ParseFloatFrom(t, i + 1, number, ndigits, decimals, TRUE)
    ELSE IF ndigits < MaxDigits
         THEN ParseFloatFrom(t, i + 1, RoundInt(number * 10 + t[i]), ndigits + 1,
                             IF seenDot THEN decimals + 1 ELSE decimals, seenDot)
         ELSE ParseFloatFrom(t, i + 1, number, ndigits, decimals, seenDot)
ParseFloat(t) == ParseFloatFrom(t, 1, 0, 0, 0, FALSE)

IsFloatText(t) == \E i \in 1..Len(t) : t[i] = Dot

\* ------------------------------------------------------------ data frames
\* A DataFrame: its column names, a dtype per column and its rows (a row holds
\* one value per column: an integer, or a float in units of 2^-FracBits).
\* A CSV file: the header line and one line of cells per row.
SeverityCol == "Severity"
FeatureCols == <<"Rm_B", "Rm_F", "Pachy_Min">>
AllCols == <<SeverityCol>> \o FeatureCols

ColIndex(cols, name) == CHOOSE i \in 1..Len(cols) : cols[i] = name
HasCol(cols, name) == \E i \in 1..Len(cols) : cols[i] = name

FormatCell(v, dtype) == IF dtype = "int64" THEN FormatInt(v) ELSE FormatFloat(v)

\* DataFrame.to_csv(path, index=False): the text written
ToCsv(df) ==
    [kind |-> "csv",
     header |-> df.cols,
     lines |-> [r \in 1..Len(df.rows) |->
                  [c \in 1..Len(df.cols) |-> FormatCell(df.rows[r][c], df.dtypes[c])]]]

\* pd.read_csv(path): a column is int64 when no cell of it holds a point
InferDtype(lines, c) ==
    IF \E r \in 1..Len(lines) : IsFloatText(lines[r][c]) THEN "float64" ELSE "int64"

ParseCell(t, dtype) == IF dtype = "int64" THEN ParseInt(t) ELSE ParseFloat(t)

ReadCsv(file) ==
    LET dtypes == [c \in 1..Len(file.header) |-> InferDtype(file.lines, c)]
    IN  [cols |-> file.header,
         dtypes |-> dtypes,
         rows |-> [r \in 1..Len(file.lines) |->
                     [c \in 1..Len(file.header) |-> ParseCell(file.lines[r][c], dtypes[c])]]]

\* df[name]: the column as a sequence
Column(df, name) == [r \in 1..Len(df.rows) |-> df.rows[r][ColIndex(df.cols, name)]]

\* df[[names]]: the sub-frame of the named columns
Project(df, names) ==
    [cols |-> names,
     dtypes |-> [k \in 1..Len(names) |-> df.dtypes[ColIndex(df.cols, names[k])]],
     rows |-> [r \in 1..Len(df.rows) |->
                 [k \in 1..Len(names) |-> df.rows[r][ColIndex(df.cols, names[k])]]]]
\* --------------------------------------------------- random number source
\* numpy's generator is modelled by a counter over 0..RngMod-1 that every
\* draw advances by RngStep and whose output is a scrambling of the counter;
\* a standard normal draw is the output read as a multiple of 1/ZDen in
\* [-2, 2).
ZDen == RngMod \div 4
RngStep == 389

\* np.random.seed(seed), RandomState(seed)
RngSeed(seed) == seed % RngMod

\* the state after i draws
RngIter(s, i) == (s + i * RngStep) % RngMod
RngNext(s) == RngIter(s, 1)

RngOutput(s) == ((s * (s + 7)) \div 2) % RngMod

StdNormal(s) == RngOutput(s) - (RngMod \div 2)

\* np.random.normal(mean, sd, n) started in state s: the i-th value, with
\* mean = meanNum / den and sd = sdNum / den
NormalAt(meanNum, sdNum, den, s, i) ==
    RoundFloat(meanNum * ZDen + sdNum * StdNormal(RngIter(s, i)), den * ZDen)

\* ---------------------------------------------------- PentacamDataGenerator
severity_stages == <<0, 1, 2, 3, 4>>

\* stage data labelled 1..5 instead of 0..4
GenerateStageDataOneBased(stage, n, s) ==
    [r \in 1..n |->
        << stage + 1,
           NormalAt(650 - stage * 40, 25, 100, s, r),
           NormalAt(780 - stage * 35, 30, 100, s, n + r),
           NormalAt(520 - stage * 30, 20, 1, s, 2 * n + r) >>]

\* _generate_stage_data(stage) with the generator in state s: n rows; Rm_B
\* takes the first n draws, Rm_F the next n, Pachy_Min the last n
GenerateStageData(stage, n, s) ==
    [r \in 1..n |->
        << stage,
           NormalAt(650 - stage * 40, 25, 100, s, r),
           NormalAt(780 - stage * 35, 30, 100, s, n + r),
           NormalAt(520 - stage * 30, 20, 1, s, 2 * n + r) >>]

\* the loop over severity_stages and pd.concat: stage k starts where stage
\* k-1 left the generator
RECURSIVE ConcatStages(_, _, _)
ConcatStages(k, n, s) ==
    IF k > Len(severity_stages) THEN <<>>
    ELSE GenerateStageData(severity_stages[k], n, s)
            \o ConcatStages(k + 1, n, RngIter(s, 3 * n))

RemoveAt(seq, j) == SubSeq(seq, 1, j - 1) \o SubSeq(seq, j + 1, Len(seq))

\* df.sample(frac=1, random_state=seed).reset_index(drop=True): a permutation
\* drawn from a generator of its own, seeded with seed
RECURSIVE Permute(_, _)
Permute(rows, s) ==
    IF Len(rows) = 0 THEN <<>>
    ELSE LET j == (RngOutput(RngNext(s)) % Len(rows)) + 1
         IN  <<rows[j]>> \o Permute(RemoveAt(rows, j), RngNext(s))
\* a sample that loses a row (frac below 1)
SampleLosesRow(rows, seed) ==
    LET shuffled == Permute(rows, RngSeed(seed))
    IN  SubSeq(shuffled, 1, Len(shuffled) - 1)
Sample(rows, seed) == Permute(rows, RngSeed(seed))

Frame(rows) ==
    [cols |-> AllCols,
     dtypes |-> <<"int64", "float64", "float64", "float64">>,
     rows |-> rows]

\* generate_dataset on a generator of n_per_class n and random_state seed,
\* numpy's global generator being in state s: the concatenated frame, the
\* frame returned and the state the global generator is left in
GenerateDataset(n, seed, s) ==
    LET concat == ConcatStages(1, n, s)
    IN  [concat |-> Frame(concat),
         df |-> Frame(Sample(concat, seed)),
         rng |-> RngIter(s, 3 * n * Len(severity_stages))]
\* ------------------------------------------------------------ file system
RawCsv == "data/raw/synthetic_pentacam_79_features.csv"
PreCsv == "data/processed/preprocessed_data.csv"
SelCsv == "data/processed/selected_features_data.csv"
ModelPkl == "models/rf_kc_severity.pkl"
CvCsv == "models/cv_results.csv"
PairplotPng == "models/feature_pairplot.png"
ConfusionPng == "models/confusion_matrix.png"
MetricsCsv == "models/evaluation_metrics.csv"

Paths == {RawCsv, PreCsv, SelCsv, ModelPkl, CvCsv, PairplotPng, ConfusionPng, MetricsCsv}

ParentDir(p) ==
    IF p = RawCsv THEN "data/raw"
    ELSE IF p \in {PreCsv, SelCsv} THEN "data/processed"
    ELSE "models"

NoFile == [kind |-> "none"]
Exists(files, p) == files[p].kind # "none"

\* open(p, "w") succeeds only in an existing directory
CanWrite(directories, p) == ParentDir(p) \in directories

\* a file written by run r of the pipeline
Written(content, r) == content @@ [writer |-> r]

WriteFile(files, p, content, r) == [files EXCEPT ![p] = Written(content, r)]

\* Path.mkdir(parents=True, exist_ok=True) of data/raw
MkdirRaw(directories) == directories \cup {"data", "data/raw"}

\* --------------------------------------------------------------- the steps
\* A step's main() is a function of the world it starts in (the files, the
\* directories, numpy's global generator, the number of the running pipeline
\* process) and of the operation the environment makes raise, if any; it
\* yields whether main returned and the world it leaves, with a record of
\* what the trainer and the evaluator did.
Raised(w) == [ok |-> FALSE, w |-> w]
Returned(w) == [ok |-> TRUE, w |-> w]

\* src/data_generator.py main()
DataGeneratorMain(w, fault) ==
    LET seeded == RngSeed(MainRandomState)
        g == GenerateDataset(MainNPerClass, MainRandomState, seeded)
        made == [w EXCEPT !.rng = g.rng, !.dirs = MkdirRaw(w.dirs)]
    IN  IF fault = "generate" THEN Raised([w EXCEPT !.rng = seeded])
        ELSE IF fault = "save" THEN Raised(made)
        ELSE Returned([made EXCEPT !.fs = WriteFile(w.fs, RawCsv, ToCsv(g.df), w.run)])

HasFeatureCols(df) == \A k \in 1..Len(FeatureCols) : HasCol(df.cols, FeatureCols[k])

\* src/preprocessing.py main()
PreprocessingMain(w, fault) ==
    IF ~Exists(w.fs, RawCsv) \/ fault = "read" THEN Raised(w)
    ELSE LET df == ReadCsv(w.fs[RawCsv])
         IN  IF ~HasFeatureCols(df) THEN Raised(w)
             ELSE IF ~CanWrite(w.dirs, PreCsv) \/ fault = "write" THEN Raised(w)
             ELSE Returned([w EXCEPT !.fs = WriteFile(w.fs, PreCsv, ToCsv(df), w.run)])

Picture == [kind |-> "png"]

\* a selector that saves df[selected_features], dropping the label
FeatureSelectionMainFeaturesOnly(w, fault) ==
    IF ~Exists(w.fs, PreCsv) \/ fault = "read" THEN Raised(w)
    ELSE LET df == ReadCsv(w.fs[PreCsv])
             saved == WriteFile(w.fs, SelCsv, ToCsv(Project(df, FeatureCols)), w.run)
             plotted == IF fault = "plot" \/ ~HasCol(df.cols, SeverityCol)
                           \/ ~CanWrite(w.dirs, PairplotPng)
                        THEN saved
                        ELSE WriteFile(saved, PairplotPng, Picture, w.run)
         IN  IF ~CanWrite(w.dirs, SelCsv) \/ fault = "write" THEN Raised(w)
             ELSE Returned([w EXCEPT !.fs = plotted])
\* a selector whose pairplot is drawn outside any try/except
FeatureSelectionMainPlotRaises(w, fault) ==
    IF ~Exists(w.fs, PreCsv) \/ fault = "read" THEN Raised(w)
    ELSE LET df == ReadCsv(w.fs[PreCsv])
             saved == WriteFile(w.fs, SelCsv, ToCsv(df), w.run)
         IN  IF ~CanWrite(w.dirs, SelCsv) \/ fault = "write" THEN Raised(w)
             ELSE IF fault = "plot" \/ ~HasCol(df.cols, SeverityCol)
                     \/ ~CanWrite(w.dirs, PairplotPng)
             THEN Raised([w EXCEPT !.fs = saved])
             ELSE Returned([w EXCEPT !.fs = WriteFile(saved, PairplotPng, Picture, w.run)])
\* src/feature_selection.py main(): the pairplot is drawn inside try/except
FeatureSelectionMain(w, fault) ==
    IF ~Exists(w.fs, PreCsv) \/ fault = "read" THEN Raised(w)
    ELSE LET df == ReadCsv(w.fs[PreCsv])
             saved == WriteFile(w.fs, SelCsv, ToCsv(df), w.run)
             plotted == IF fault = "plot" \/ ~HasCol(df.cols, SeverityCol)
                           \/ ~CanWrite(w.dirs, PairplotPng)
                        THEN saved
                        ELSE WriteFile(saved, PairplotPng, Picture, w.run)
         IN  IF ~CanWrite(w.dirs, SelCsv) \/ fault = "write" THEN Raised(w)
             ELSE Returned([w EXCEPT !.fs = plotted])
\* the frame of metrics written as cv_results.csv and evaluation_metrics.csv
Report == [kind |-> "report"]

\* RandomForestClassifier(...): the estimator and what it was fitted on
Unfitted == [fitted |-> FALSE, X |-> <<>>, y |-> <<>>]
\* rf.fit(X, y)
Fit(rf, X, y) == [rf EXCEPT !.fitted = TRUE, !.X = X.rows, !.y = y]
\* joblib.dump(rf, path)
Pickle(rf) == [kind |-> "pkl", model |-> rf]

CountOf(y, c) == Cardinality({i \in 1..Len(y) : y[i] = c})
\* StratifiedKFold.split raises when n_splits exceeds the members of every class
CvRaises(y) == \A i \in 1..Len(y) : CountOf(y, y[i]) < NSplits

NoTraining == [run |-> 0, log |-> <<>>, X |-> <<>>, y |-> <<>>]

\* The trainer's operations in program order; TrainLog(k) is what has been
\* done when the k-th raises (all five when none does).
TrainOps == <<"read_csv", "cross_val_score", "fit", "dump", "to_csv">>
TrainLog(k) == SubSeq(TrainOps, 1, k - 1)

\* a trainer that dumps the estimator it constructed, not the fitted one
TrainMainDumpsUnfitted(w, fault) ==
    LET did(k, X, y) == [run |-> w.run, log |-> TrainLog(k), X |-> X, y |-> y]
    IN  IF ~Exists(w.fs, SelCsv) \/ fault = "read"
        THEN Raised([w EXCEPT !.train = did(1, <<>>, <<>>)])
        ELSE
        LET df == ReadCsv(w.fs[SelCsv])
        IN  IF ~HasFeatureCols(df) \/ ~HasCol(df.cols, SeverityCol)
            THEN Raised([w EXCEPT !.train = did(2, <<>>, <<>>)])
            ELSE
            LET X == Project(df, FeatureCols)
                y == Column(df, SeverityCol)
                rf == Unfitted
                fitted == Fit(rf, X, y)
                dumped == WriteFile(w.fs, ModelPkl, Pickle(rf), w.run)
            IN  IF CvRaises(y) \/ fault = "cv"
                THEN Raised([w EXCEPT !.train = did(2, X.rows, y)])
                ELSE IF fault = "fit"
                THEN Raised([w EXCEPT !.train = did(3, X.rows, y)])
                ELSE IF ~CanWrite(w.dirs, ModelPkl) \/ fault = "dump"
                THEN Raised([w EXCEPT !.train = did(4, X.rows, y)])
                ELSE IF fault = "results"
                THEN Raised([w EXCEPT !.train = did(5, X.rows, y), !.fs = dumped])
                ELSE Returned([w EXCEPT !.train = did(6, X.rows, y),
                                        !.fs = WriteFile(dumped, CvCsv, Report, w.run)])

\* src/train.py main()
TrainMain(w, fault) ==
    LET did(k, X, y) == [run |-> w.run, log |-> TrainLog(k), X |-> X, y |-> y]
    IN  IF ~Exists(w.fs, SelCsv) \/ fault = "read"
        THEN Raised([w EXCEPT !.train = did(1, <<>>, <<>>)])
        ELSE
        LET df == ReadCsv(w.fs[SelCsv])
        IN  IF ~HasFeatureCols(df) \/ ~HasCol(df.cols, SeverityCol)
            THEN Raised([w EXCEPT !.train = did(2, <<>>, <<>>)])
            ELSE
            LET X == Project(df, FeatureCols)
                y == Column(df, SeverityCol)
                rf == Unfitted
                fitted == Fit(rf, X, y)
                dumped == WriteFile(w.fs, ModelPkl, Pickle(fitted), w.run)
            IN  IF CvRaises(y) \/ fault = "cv"
                THEN Raised([w EXCEPT !.train = did(2, X.rows, y)])
                ELSE IF fault = "fit"
                THEN Raised([w EXCEPT !.train = did(3, X.rows, y)])
                ELSE IF ~CanWrite(w.dirs, ModelPkl) \/ fault = "dump"
                THEN Raised([w EXCEPT !.train = did(4, X.rows, y)])
                ELSE IF fault = "results"
                THEN Raised([w EXCEPT !.train = did(5, X.rows, y), !.fs = dumped])
                ELSE Returned([w EXCEPT !.train = did(6, X.rows, y),
                                        !.fs = WriteFile(dumped, CvCsv, Report, w.run)])

NoEvaluation == [run |-> 0, rows |-> <<>>, y |-> <<>>, model |-> NoFile]

\* src/evaluate.py main()
EvaluateMain(w, fault) ==
    IF ~Exists(w.fs, RawCsv) \/ fault = "read" THEN Raised(w)
    ELSE
    LET df_raw == ReadCsv(w.fs[RawCsv])
    IN  IF ~HasFeatureCols(df_raw) \/ ~HasCol(df_raw.cols, SeverityCol) THEN Raised(w)
        ELSE
        LET X == Project(df_raw, FeatureCols)
            y == Column(df_raw, SeverityCol)
            loaded == w.fs[ModelPkl]
            scored == [w EXCEPT !.eval = [run |-> w.run, rows |-> X.rows, y |-> y,
                                          model |-> loaded]]
            plotted == [scored EXCEPT !.fs = WriteFile(w.fs, ConfusionPng, Picture, w.run)]
        IN  IF ~Exists(w.fs, ModelPkl) \/ fault = "load" THEN Raised(w)
            ELSE IF ~loaded.model.fitted THEN Raised(w)
            ELSE IF ~CanWrite(w.dirs, ConfusionPng) \/ fault = "plot" THEN Raised(scored)
            ELSE IF fault = "metrics" THEN Raised(plotted)
            ELSE Returned([plotted EXCEPT
                             !.fs = WriteFile(plotted.fs, MetricsCsv, Report, w.run)])

\* ------------------------------------------------------------ run_pipeline
\* run_pipeline.main: steps
steps == << [name |-> "1. Data Generation", module |-> "src.data_generator"],
            [name |-> "2. Data Preprocessing", module |-> "src.preprocessing"],
            [name |-> "3. Feature Selection", module |-> "src.feature_selection"],
            [name |-> "4. Model Training", module |-> "src.train"],
            [name |-> "5. Model Evaluation", module |-> "src.evaluate"] >>

\* the operations of a module the environment can make raise
FaultsOf(module) ==
    CASE module = "src.data_generator" -> {"none", "generate", "save"}
      [] module = "src.preprocessing" -> {"none", "read", "write"}
      [] module = "src.feature_selection" -> {"none", "read", "write", "plot"}
      [] module = "src.train" -> {"none", "read", "cv", "fit", "dump", "results"}
      [] module = "src.evaluate" -> {"none", "read", "load", "plot", "metrics"}

\* __import__(module_name, fromlist=['main']).main()
ModuleMain(module, w, fault) ==
    CASE module = "src.data_generator" -> DataGeneratorMain(w, fault)
      [] module = "src.preprocessing" -> PreprocessingMain(w, fault)
      [] module = "src.feature_selection" -> FeatureSelectionMain(w, fault)
      [] module = "src.train" -> TrainMain(w, fault)
      [] module = "src.evaluate" -> EvaluateMain(w, fault)
\* ------------------------------------------------------------------ state
VARIABLES
    fs,        \* the files of the working directory
    dirs,      \* its directories
    run,       \* the number of the pipeline process (0: none started yet)
    pc,        \* where run_pipeline.main is: "idle", "loop", "done", "exited"
    step,      \* the index in steps of the next loop iteration
    results,   \* main's results list
    stdout,    \* what the pipeline process has printed
    exitCode,  \* its exit status (NoExit while it runs)
    rng,       \* numpy's global generator in the pipeline process
    train,     \* what the last training step did
    eval,      \* what the last evaluation step scored
    cache,     \* st.cache_resource's entry for load_model
    appRuns,   \* script runs of the page so far
    page,      \* what the last script run of the page did
    gen,       \* a caller's PentacamDataGenerator instance
    grng,      \* numpy's global generator in that caller's process
    calls      \* the caller's generate_dataset calls, in order

pipeVars == <<fs, dirs, run, pc, step, results, stdout, exitCode, rng, train, eval>>
appVars == <<cache, appRuns, page>>
genVars == <<gen, grng, calls>>
vars == <<fs, dirs, run, pc, step, results, stdout, exitCode, rng, train, eval,
          cache, appRuns, page, gen, grng, calls>>

NoExit == -1

\* states a fresh process may find numpy's global generator in
RngStarts == {0, 511}

\* directories a working directory may hold before the first run
InitialDirs ==
    { {}, {"data", "data/processed"}, {"models"},
      {"data", "data/processed", "models"},
      {"data", "data/raw", "data/processed", "models"} }

Event(ev, name) == [ev |-> ev, step |-> name]

NoStage == -1
NoInfo == [name |-> "", color |-> "", class |-> "", description |-> ""]
NoPage == [outcome |-> "none", loaded |-> FALSE, model |-> NoFile, disk |-> 0,
           calls |-> <<>>, prediction |-> NoStage, severity |-> NoInfo,
           recommendation |-> "", gauge |-> NoStage, rendered |-> <<>>]
NoGen == [n |-> -1, random_state |-> -1]

InitPipe ==
    /\ fs = [p \in Paths |-> NoFile]
    /\ run = 0
    /\ pc = "idle"
    /\ step = 1
    /\ results = <<>>
    /\ stdout = <<>>
    /\ exitCode = NoExit
    /\ rng = 0
    /\ train = NoTraining
    /\ eval = NoEvaluation
InitApp ==
    /\ cache = NoFile
    /\ appRuns = 0
    /\ page = NoPage
InitGen ==
    /\ gen = NoGen
    /\ calls = <<>>

Init ==
    /\ InitPipe
    /\ dirs \in InitialDirs
    /\ InitApp
    /\ InitGen
    /\ grng = 0

World == [fs |-> fs, dirs |-> dirs, rng |-> rng, train |-> train, eval |-> eval, run |-> run]

\* python run_pipeline.py: a new process reaches main's loop
Launch ==
    /\ pc \in {"idle", "done", "exited"}
    /\ run < MaxRuns
    /\ run' = run + 1
    /\ pc' = "loop"
    /\ step' = 1
    /\ results' = <<>>
    /\ stdout' = <<>>
    /\ exitCode' = NoExit
    /\ rng' \in RngStarts
    /\ UNCHANGED <<fs, dirs, train, eval>>
    /\ UNCHANGED appVars
    /\ UNCHANGED genVars

\* run_step's failure not ending the loop: the next step is started
RunStepContinues(fault) ==
    /\ pc = "loop"
    /\ step <= Len(steps)
    /\ fault \in FaultsOf(steps[step].module)
    /\ \E r \in {ModuleMain(steps[step].module, World, fault)} :
         LET s == steps[step]
         IN  /\ fs' = r.w.fs
             /\ dirs' = r.w.dirs
             /\ rng' = r.w.rng
             /\ train' = r.w.train
             /\ eval' = r.w.eval
             /\ results' = Append(results, [name |-> s.name, success |-> r.ok])
             /\ IF r.ok
                THEN /\ stdout' = stdout \o <<Event("STEP", s.name),
                                              Event("completed", s.name)>>
                     /\ step' = step + 1
                     /\ UNCHANGED <<pc, exitCode>>
                ELSE /\ stdout' = stdout \o <<Event("STEP", s.name),
                                              Event("failed", s.name),
                                              Event("halted", "")>>
                     /\ step' = step + 1
                     /\ UNCHANGED <<pc, exitCode>>
    /\ UNCHANGED run
    /\ UNCHANGED appVars
    /\ UNCHANGED genVars

\* the failure path leaving with status 0
RunStepExitsZero(fault) ==
    /\ pc = "loop"
    /\ step <= Len(steps)
    /\ fault \in FaultsOf(steps[step].module)
    /\ \E r \in {ModuleMain(steps[step].module, World, fault)} :
         LET s == steps[step]
         IN  /\ fs' = r.w.fs
             /\ dirs' = r.w.dirs
             /\ rng' = r.w.rng
             /\ train' = r.w.train
             /\ eval' = r.w.eval
             /\ results' = Append(results, [name |-> s.name, success |-> r.ok])
             /\ IF r.ok
                THEN /\ stdout' = stdout \o <<Event("STEP", s.name),
                                              Event("completed", s.name)>>
                     /\ step' = step + 1
                     /\ UNCHANGED <<pc, exitCode>>
                ELSE /\ stdout' = stdout \o <<Event("STEP", s.name),
                                              Event("failed", s.name),
                                              Event("halted", "")>>
                     /\ pc' = "exited"
                     /\ exitCode' = 0
                     /\ UNCHANGED step
    /\ UNCHANGED run
    /\ UNCHANGED appVars
    /\ UNCHANGED genVars

\* a loop that leaves with break on a failure and goes on to the summary
RunStepBreaks(fault) ==
    /\ pc = "loop"
    /\ step <= Len(steps)
    /\ fault \in FaultsOf(steps[step].module)
    /\ \E r \in {ModuleMain(steps[step].module, World, fault)} :
         LET s == steps[step]
         IN  /\ fs' = r.w.fs
             /\ dirs' = r.w.dirs
             /\ rng' = r.w.rng
             /\ train' = r.w.train
             /\ eval' = r.w.eval
             /\ results' = Append(results, [name |-> s.name, success |-> r.ok])
             /\ IF r.ok
                THEN /\ stdout' = stdout \o <<Event("STEP", s.name),
                                              Event("completed", s.name)>>
                     /\ step' = step + 1
                     /\ UNCHANGED <<pc, exitCode>>
                ELSE /\ stdout' = stdout \o <<Event("STEP", s.name),
                                              Event("failed", s.name),
                                              Event("halted", "")>>
                     /\ step' = Len(steps) + 1
                     /\ UNCHANGED <<pc, exitCode>>
    /\ UNCHANGED run
    /\ UNCHANGED appVars
    /\ UNCHANGED genVars

\* one iteration of main's loop: run_step(step_name, module_path), the append
\* to results and, when run_step returned False, sys.exit(1)
RunStep(fault) ==
    /\ pc = "loop"
    /\ step <= Len(steps)
    /\ fault \in FaultsOf(steps[step].module)
    /\ \E r \in {ModuleMain(steps[step].module, World, fault)} :
         LET s == steps[step]
         IN  /\ fs' = r.w.fs
             /\ dirs' = r.w.dirs
             /\ rng' = r.w.rng
             /\ train' = r.w.train
             /\ eval' = r.w.eval
             /\ results' = Append(results, [name |-> s.name, success |-> r.ok])
             /\ IF r.ok
                THEN /\ stdout' = stdout \o <<Event("STEP", s.name),
                                              Event("completed", s.name)>>
                     /\ step' = step + 1
                     /\ UNCHANGED <<pc, exitCode>>
                ELSE /\ stdout' = stdout \o <<Event("STEP", s.name),
                                              Event("failed", s.name),
                                              Event("halted", "")>>
                     /\ pc' = "exited"
                     /\ exitCode' = 1
                     /\ UNCHANGED step
    /\ UNCHANGED run
    /\ UNCHANGED appVars
    /\ UNCHANGED genVars

\* the rest of main after the loop: the summary and the closing banner
Summary ==
    /\ pc = "loop"
    /\ step > Len(steps)
    /\ stdout' = stdout \o <<Event("SUMMARY", "")>>
                    \o [i \in 1..Len(results) |->
                          Event(IF results[i].success THEN "PASSED" ELSE "FAILED",
                                results[i].name)]
                    \o <<Event("COMPLETED SUCCESSFULLY", "")>>
    /\ pc' = "done"
    /\ exitCode' = 0
    /\ UNCHANGED <<fs, dirs, run, step, results, rng, train, eval>>
    /\ UNCHANGED appVars
    /\ UNCHANGED genVars

\* --------------------------------------------------------- streamlit page
\* the classes a fitted classifier predicts
Classes(model) == {model.y[i] : i \in 1..Len(model.y)}

\* get_severity_info: the info dict
info ==
    [s \in 0..4 |->
       CASE s = 0 -> [name |-> "Stage 0 - Normal", color |-> "#28a745", class |-> "stage-0",
                      description |-> "Clear cornea with normal thickness and visual acuity"]
         [] s = 1 -> [name |-> "Stage 1 - Mild KC", color |-> "#17a2b8", class |-> "stage-1",
                      description |-> "Fleischer's ring may be present, mild corneal thinning"]
         [] s = 2 -> [name |-> "Stage 2 - Moderate KC", color |-> "#ffc107", class |-> "stage-2",
                      description |-> "Fleischer's ring and Vogt's striae, evident thinning"]
         [] s = 3 -> [name |-> "Stage 3 - Advanced KC", color |-> "#fd7e14", class |-> "stage-3",
                      description |-> "Munson's sign, significant thinning with faint scarring"]
         [] s = 4 -> [name |-> "Stage 4 - Severe KC", color |-> "#dc3545", class |-> "stage-4",
                      description |-> "Corneal scarring and opacities, evident Munson's sign"]]

\* a lookup that falls back to the last entry of the dict
GetSeverityInfoDefaultsToLast(stage) == IF stage \in DOMAIN info THEN info[stage] ELSE info[4]
\* get_severity_info(stage): info.get(stage, info[0])
get_severity_info(stage) == IF stage \in DOMAIN info THEN info[stage] ELSE info[0]

\* main: the if/elif chain under "Clinical Recommendations"
Recommendation(prediction) ==
    IF prediction = 0 THEN "Normal cornea. Regular follow-up recommended."
    ELSE IF prediction = 1
    THEN "Mild KC. Consider corneal cross-linking consultation. Spectacles or soft contact lenses."
    ELSE IF prediction = 2
    THEN "Moderate KC. Corneal cross-linking recommended. Rigid contact lenses may be needed."
    ELSE IF prediction = 3
    THEN "Advanced KC. Corneal cross-linking and specialty contact lenses. Consider surgical options."
    ELSE "Severe KC. Surgical intervention likely required (corneal ring implant or transplant)."

\* a load_model whose missing-file branch returns instead of stopping
LoadModelReturnsNone(files, cached) ==
    IF cached.kind # "none"
    THEN [stopped |-> FALSE, loaded |-> FALSE, model |-> cached, cache |-> cached]
    ELSE IF Exists(files, ModelPkl)
    THEN [stopped |-> FALSE, loaded |-> TRUE, model |-> files[ModelPkl],
          cache |-> files[ModelPkl]]
    ELSE [stopped |-> FALSE, loaded |-> FALSE, model |-> Written(Pickle(Unfitted), 0),
          cache |-> cached]
\* load_model() behind st.cache_resource.  With an entry cached the body is
\* not run; otherwise the body reads the model file and its return value is
\* cached, or, the file missing, it reports the error and st.stop() ends the
\* script run with nothing cached.
LoadModel(files, cached) ==
    IF cached.kind # "none"
    THEN [stopped |-> FALSE, loaded |-> FALSE, model |-> cached, cache |-> cached]
    ELSE IF Exists(files, ModelPkl)
    THEN [stopped |-> FALSE, loaded |-> TRUE, model |-> files[ModelPkl],
          cache |-> files[ModelPkl]]
    ELSE [stopped |-> TRUE, loaded |-> FALSE, model |-> NoFile, cache |-> cached]

\* the calls of main's try block that can raise
Raisers == {"none", "predict", "predict_proba"}

\* main's try block: model.predict, then model.predict_proba
Predicted(model, raises) ==
    IF raises = "predict" \/ ~model.model.fitted
    THEN [ok |-> FALSE, calls |-> <<"predict">>]
    ELSE IF raises = "predict_proba"
    THEN [ok |-> FALSE, calls |-> <<"predict", "predict_proba">>]
    ELSE [ok |-> TRUE, calls |-> <<"predict", "predict_proba">>]

\* what main renders once both calls have returned
Results(shown, prediction) ==
    [shown EXCEPT !.outcome = "results",
                  !.prediction = prediction,
                  !.severity = get_severity_info(prediction),
                  !.recommendation = Recommendation(prediction),
                  !.gauge = prediction,
                  !.rendered = @ \o <<"severity", "recommendation", "gauge",
                                      "confidence", "footer">>]

\* an except branch without st.stop(): the results follow the error message
PredictionShownAfterError(shown, model, raises, prediction) ==
    LET r == Predicted(model, raises)
        called == [shown EXCEPT !.calls = r.calls]
    IN  IF ~r.ok
        THEN [Results([called EXCEPT !.rendered = @ \o <<"prediction_error">>], prediction)
                EXCEPT !.outcome = "prediction_error"]
        ELSE Results(called, prediction)
\* main, the button pressed: the try block, its except branch (the error,
\* st.stop()) and the rendering of the results
PredictionShown(shown, model, raises, prediction) ==
    LET r == Predicted(model, raises)
        called == [shown EXCEPT !.calls = r.calls]
    IN  IF ~r.ok
        THEN [called EXCEPT !.outcome = "prediction_error",
                            !.rendered = @ \o <<"prediction_error">>]
        ELSE Results(called, prediction)

\* load_model without st.cache_resource: every script run reads the file
ScriptRunUncached(button, raises, prediction) ==
    /\ appRuns < MaxAppRuns
    /\ appRuns' = appRuns + 1
    /\ raises \in Raisers
    /\ \E m \in {LoadModel(fs, NoFile)} :
         LET disk == IF Exists(fs, ModelPkl) THEN fs[ModelPkl].writer ELSE 0
             shown == [NoPage EXCEPT !.loaded = m.loaded, !.model = m.model,
                                     !.disk = disk, !.rendered = <<"header">>]
         IN  /\ cache' = m.cache
             /\ IF m.stopped
                THEN page' = [NoPage EXCEPT !.outcome = "model_not_found",
                                            !.rendered = <<"header", "model_not_found">>]
                ELSE IF ~button
                THEN page' = [shown EXCEPT !.outcome = "form",
                                           !.rendered = @ \o <<"form", "footer">>]
                ELSE \E p \in {PredictionShown([shown EXCEPT !.rendered = @ \o <<"form">>],
                                               m.model, raises, prediction)} :
                        /\ p.outcome = "results" => prediction \in Classes(m.model.model)
                        /\ page' = p
    /\ UNCHANGED pipeVars
    /\ UNCHANGED genVars

\* One script run of app/streamlit_app.py main(): the header, load_model()
\* through st.cache_resource, the form, and, when the button was pressed, the
\* prediction and its rendering.  page records the run: whether load_model's
\* body read the file (loaded), the model the run worked with, the pipeline
\* run that had written the model file on disk at that moment (disk, 0 when
\* there was none), the calls made on the model, the class predicted and the
\* elements rendered, in order.
ScriptRun(button, raises, prediction) ==
    /\ appRuns < MaxAppRuns
    /\ appRuns' = appRuns + 1
    /\ raises \in Raisers
    /\ \E m \in {LoadModel(fs, cache)} :
         LET disk == IF Exists(fs, ModelPkl) THEN fs[ModelPkl].writer ELSE 0
             shown == [NoPage EXCEPT !.loaded = m.loaded, !.model = m.model,
                                     !.disk = disk, !.rendered = <<"header">>]
         IN  /\ cache' = m.cache
             /\ IF m.stopped
                THEN page' = [NoPage EXCEPT !.outcome = "model_not_found",
                                            !.rendered = <<"header", "model_not_found">>]
                ELSE IF ~button
                THEN page' = [shown EXCEPT !.outcome = "form",
                                           !.rendered = @ \o <<"form", "footer">>]
                ELSE \E p \in {PredictionShown([shown EXCEPT !.rendered = @ \o <<"form">>],
                                               m.model, raises, prediction)} :
                        /\ p.outcome = "results" => prediction \in Classes(m.model.model)
                        /\ page' = p
    /\ UNCHANGED pipeVars
    /\ UNCHANGED genVars

\* ------------------------------------------------ callers of the generator
Seeds == {MainRandomState, 7}

\* PentacamDataGenerator(n_per_class=n, random_state=seed)
Construct(n, seed) ==
    /\ gen' = [n |-> n, random_state |-> seed]
    /\ grng' = RngSeed(seed)
    /\ UNCHANGED calls
    /\ UNCHANGED pipeVars
    /\ UNCHANGED appVars

\* gen.generate_dataset(output_path), with a path (save) or without
Generate(save) ==
    /\ gen # NoGen
    /\ Len(calls) < MaxCalls
    /\ \E g \in {GenerateDataset(gen.n, gen.random_state, grng)} :
          /\ grng' = g.rng
          /\ calls' = Append(calls,
                 [n |-> gen.n, random_state |-> gen.random_state,
                  concat |-> g.concat, df |-> g.df,
                  saved |-> IF save THEN ToCsv(g.df) ELSE NoFile])
    /\ UNCHANGED gen
    /\ UNCHANGED pipeVars
    /\ UNCHANGED appVars

\* --------------------------------------------------------- specifications
AllFaults == UNION {FaultsOf(steps[i].module) : i \in 1..Len(steps)}

\* the pipeline, any operation of a step failing
Next ==
    \/ Launch
    \/ \E fault \in AllFaults : RunStep(fault)
    \/ Summary

Spec == Init /\ [][Next]_vars

\* the page, served while pipelines run beside it
NextApp ==
    \/ Launch
    \/ RunStep("none")
    \/ Summary
    \/ \E button \in BOOLEAN, raises \in Raisers, prediction \in 0..4 :
          ScriptRun(button, raises, prediction)

SpecApp == Init /\ [][NextApp]_vars

\* callers of PentacamDataGenerator in one process
InitCallers ==
    /\ InitPipe
    /\ dirs = {}
    /\ InitApp
    /\ InitGen
    /\ grng \in RngStarts

NextCallers ==
    \/ \E n \in 0..MaxNPerClass, seed \in Seeds : Construct(n, seed)
    \/ \E save \in BOOLEAN : Generate(save)

SpecCallers == InitCallers /\ [][NextCallers]_vars
\* ================================================================= claims
Range(seq) == {seq[i] : i \in 1..Len(seq)}
BagOfSeq(seq) == [x \in Range(seq) |-> Cardinality({i \in 1..Len(seq) : seq[i] = x})]

StepStarts == SelectSeq(stdout, LAMBDA e : e.ev = "STEP")
Printed(ev, name) == \E i \in 1..Len(stdout) : stdout[i] = Event(ev, name)
\* step k of the running pipeline process has returned
Completed(k) == run > 0 /\ Printed("completed", steps[k].name)

\* the step that writes a path
WriterStep(p) ==
    IF p = RawCsv THEN 1
    ELSE IF p = PreCsv THEN 2
    ELSE IF p \in {SelCsv, PairplotPng} THEN 3
    ELSE IF p \in {ModelPkl, CvCsv} THEN 4
    ELSE 5
WrittenNow(p) == run > 0 /\ Exists(fs, p) /\ fs[p].writer = run

\* C1: run_pipeline.main runs the five steps in the order data generation,
\* preprocessing, feature selection, training, evaluation: the steps started
\* so far are the first steps of that order, each started once, a step is
\* started only after every earlier step has completed, and a file written
\* by this run was written by a step that has been started.
C1_StepsInOrder ==
    /\ Len(StepStarts) <= Len(steps)
    /\ \A k \in 1..Len(StepStarts) : StepStarts[k].step = steps[k].name
    /\ \A i \in 1..Len(stdout) : \A k \in 1..Len(steps) :
          stdout[i] = Event("STEP", steps[k].name) =>
             \A j \in 1..(k - 1) :
                \E h \in 1..(i - 1) : stdout[h] = Event("completed", steps[j].name)
    /\ \A p \in Paths : WrittenNow(p) => Len(StepStarts) >= WriterStep(p)
    /\ <<steps[1].module, steps[2].module, steps[3].module, steps[4].module,
         steps[5].module>>
          = <<"src.data_generator", "src.preprocessing", "src.feature_selection",
              "src.train", "src.evaluate">>

\* all five steps have run in the second pipeline process
C1_Witness == run = 2 /\ Len(StepStarts) = 5 /\ WrittenNow(MetricsCsv)

\* C2: when a step raises, run_step returns False for it, no later step is
\* started, the process exits with status 1, neither the summary nor the
\* closing banner is printed, and the failed step is not run again.
C2_StopsOnFirstFailure ==
    \A i \in 1..Len(stdout) :
       stdout[i].ev = "failed" =>
          /\ i = Len(stdout) - 1
          /\ stdout[Len(stdout)] = Event("halted", "")
          /\ pc = "exited"
          /\ exitCode = 1
          /\ results[Len(results)] = [name |-> stdout[i].step, success |-> FALSE]
          /\ \A j \in 1..(Len(results) - 1) : results[j].success
          /\ StepStarts[Len(StepStarts)].step = stdout[i].step
          /\ Len(StepStarts) = Len(results)
          /\ ~Printed("SUMMARY", "")
          /\ ~Printed("COMPLETED SUCCESSFULLY", "")

\* the training step failed after three steps had passed
C2_Witness ==
    /\ Len(results) = 4
    /\ ~results[4].success
    /\ Printed("failed", steps[4].name)

\* C3: a generate_dataset call on a generator of n_per_class N returns 5*N
\* rows with every class 0..4 exactly N times; the shuffled frame holds the
\* rows of the concatenated frame, each as often; the file saved holds the
\* same number of rows and of each label.
C3_BalancedDataset ==
    \A i \in 1..Len(calls) :
       LET c == calls[i]
           labels == Column(c.df, SeverityCol)
       IN  /\ Len(c.df.rows) = 5 * c.n
           /\ \A cls \in 0..4 : CountOf(labels, cls) = c.n
           /\ BagOfSeq(c.df.rows) = BagOfSeq(c.concat.rows)
           /\ c.saved # NoFile =>
                /\ Len(c.saved.lines) = 5 * c.n
                /\ \A cls \in 0..4 :
                      Cardinality({r \in 1..Len(c.saved.lines) :
                          ParseInt(c.saved.lines[r][ColIndex(c.saved.header, SeverityCol)])
                             = cls}) = c.n

\* a saved call with the largest n_per_class whose shuffle moved rows
C3_Witness ==
    \E i \in 1..Len(calls) :
       /\ calls[i].n = MaxNPerClass
       /\ calls[i].saved # NoFile
       /\ calls[i].df.rows # calls[i].concat.rows

SeverityCells(file) ==
    {file.lines[r][ColIndex(file.header, SeverityCol)] : r \in 1..Len(file.lines)}

\* C4: every row carries a Severity label in 0..4 in the raw file, the
\* preprocessed file and the selected-features file, and in the labels the
\* trainer and the evaluator work on.
C4_LabelsInRange ==
    /\ \A p \in {RawCsv, PreCsv, SelCsv} :
          Exists(fs, p) =>
             /\ HasCol(fs[p].header, SeverityCol)
             /\ \A t \in SeverityCells(fs[p]) : ~IsFloatText(t) /\ ParseInt(t) \in 0..4
    /\ Range(train.y) \subseteq 0..4
    /\ Range(eval.y) \subseteq 0..4
    /\ Exists(fs, ModelPkl) => Range(fs[ModelPkl].model.y) \subseteq 0..4

\* the evaluation step has scored a full dataset
C4_Witness ==
    /\ Completed(5)
    /\ Range(eval.y) = 0..4
    /\ Range(train.y) = 0..4
    /\ \A p \in {RawCsv, PreCsv, SelCsv} : Len(fs[p].lines) = 5 * MainNPerClass

\* C8 (as claimed): two generate_dataset calls with the same n_per_class and
\* random_state return identical frames.
C8_SameSeedSameDataset ==
    \A i, j \in 1..Len(calls) :
       (calls[i].n = calls[j].n /\ calls[i].random_state = calls[j].random_state)
          => calls[i].df = calls[j].df
\* C5 (as claimed): once the preprocessing step has returned, the
\* preprocessed file holds the header and the lines of the raw file, cell
\* for cell.
C5_PreprocessedIsRaw ==
    Completed(2) =>
       /\ fs[PreCsv].header = fs[RawCsv].header
       /\ fs[PreCsv].lines = fs[RawCsv].lines

C9_TrainerPersists ==
    /\ Completed(4) =>
          /\ WrittenNow(ModelPkl)
          /\ WrittenNow(CvCsv)
          /\ fs[CvCsv].kind = "report"
          /\ train.run = run
          /\ train.log = <<"read_csv", "cross_val_score", "fit", "dump", "to_csv">>
    /\ WrittenNow(ModelPkl) =>
          /\ fs[ModelPkl].kind = "pkl"
          /\ fs[ModelPkl].model.fitted
          /\ train.run = run
          /\ fs[ModelPkl].model.X = Project(ReadCsv(fs[SelCsv]), FeatureCols).rows
          /\ fs[ModelPkl].model.y = Column(ReadCsv(fs[SelCsv]), SeverityCol)
          /\ \E c, f, d \in 1..Len(train.log) :
                /\ train.log[c] = "cross_val_score"
                /\ train.log[f] = "fit"
                /\ train.log[d] = "dump"
                /\ c < f
                /\ f < d
    /\ (run > 0 /\ train.run = run /\ "fit" \notin Range(train.log)) => ~WrittenNow(ModelPkl)

\* the training step of the second pipeline process has returned, replacing
\* the model file of the first
C9_Witness ==
    /\ run = 2
    /\ Completed(4)
    /\ fs[ModelPkl].writer = 2
    /\ Len(fs[ModelPkl].model.X) = 5 * MainNPerClass

\* C10 (as claimed): the evaluation step of a run scores the model written
\* by that run's training step on all rows of the raw file, and the raw file
\* and the selected-features file hold the same rows.
C10_EvaluatedOnTrainingRows ==
    (run > 0 /\ eval.run = run) =>
       /\ eval.model.writer = run
       /\ eval.rows = Project(ReadCsv(fs[RawCsv]), FeatureCols).rows
       /\ fs[RawCsv].lines = fs[SelCsv].lines
\* C7 (as claimed): every prediction request is served by a model read from
\* the model file for that request, the file then on disk.
C7_ReloadedPerRequest ==
    page.outcome \in {"results", "prediction_error"} =>
       /\ page.loaded
       /\ page.model.writer = page.disk

\* C7 (amended): load_model's body reads the model file only while nothing
\* is cached; the first script run that finds the file caches the model it
\* read, the cached model never changes, and every later script run and
\* prediction works with it without reading the file.
C7_CachedModel ==
    [][ /\ (cache.kind # "none") =>
             /\ cache' = cache
             /\ (appRuns' # appRuns) => (~page'.loaded /\ page'.model = cache)
        /\ (cache.kind = "none" /\ appRuns' # appRuns) =>
             IF Exists(fs, ModelPkl)
             THEN /\ page'.loaded
                  /\ page'.model = fs[ModelPkl]
                  /\ cache' = fs[ModelPkl]
             ELSE /\ page'.outcome = "model_not_found"
                  /\ cache' = cache ]_vars

\* a prediction rendered from the cached model of the first pipeline run
\* while the model file on disk is the one the second run wrote
C7_Witness ==
    /\ page.outcome = "results"
    /\ ~page.loaded
    /\ page.model.writer = 1
    /\ page.disk = 2

\* the elements main renders for a prediction
ResultElements == {"severity", "recommendation", "gauge", "confidence"}

\* C11: a script run of the page that finds no model file shows the
\* 'Model file not found' error and stops there: it renders no form, makes
\* no call on a model, shows no prediction and no result element, and
\* leaves nothing cached.
C11_ModelNotFoundStops ==
    [][ (appRuns' # appRuns /\ ~Exists(fs, ModelPkl)) =>
          /\ page'.outcome = "model_not_found"
          /\ page'.rendered = <<"header", "model_not_found">>
          /\ page'.calls = <<>>
          /\ page'.prediction = NoStage
          /\ page'.severity = NoInfo
          /\ page'.recommendation = ""
          /\ page'.gauge = NoStage
          /\ page'.model = NoFile
          /\ cache' = NoFile ]_vars

\* the page was requested before any pipeline run had written the model
C11_Witness ==
    /\ appRuns > 0
    /\ ~Exists(fs, ModelPkl)
    /\ page.outcome = "model_not_found"
    /\ cache = NoFile

\* what the page shows for a request on model m when the call named by
\* raises raises
ShownWhenRaising(m, raises, prediction) ==
    PredictionShown([NoPage EXCEPT !.model = m, !.rendered = <<"header", "form">>],
                    m, raises, prediction)
\* a page that shows the prediction error and nothing of a result
ErrorOnly(p) ==
    /\ p.outcome = "prediction_error"
    /\ p.rendered[Len(p.rendered)] = "prediction_error"
    /\ Range(p.rendered) \cap ResultElements = {}
    /\ p.prediction = NoStage
    /\ p.severity = NoInfo
    /\ p.recommendation = ""
    /\ p.gauge = NoStage

\* C12: when model.predict or model.predict_proba raises, the page shows
\* 'Prediction error' as its last element and no predicted class,
\* recommendation, gauge or confidence chart; a page shows any of these only
\* when predict and predict_proba have both been called and neither raised.
C12_PredictionErrorStops ==
    /\ (cache.kind # "none") =>
          \A raises \in {"predict", "predict_proba"}, prediction \in 0..4 :
             ErrorOnly(ShownWhenRaising(cache, raises, prediction))
    /\ (page.calls # <<>> /\ page.outcome # "results") => ErrorOnly(page)
    /\ (Range(page.rendered) \cap ResultElements # {}) =>
          /\ page.outcome = "results"
          /\ page.calls = <<"predict", "predict_proba">>
          /\ "prediction_error" \notin Range(page.rendered)
          /\ ResultElements \subseteq Range(page.rendered)

\* predict returned and predict_proba raised, on a fitted model
C12_Witness ==
    /\ page.outcome = "prediction_error"
    /\ page.model.kind = "pkl"
    /\ page.model.model.fitted
    /\ page.calls = <<"predict", "predict_proba">>
    /\ page.rendered = <<"header", "form", "prediction_error">>

\* the lines of the execution summary, when it has been printed
SummaryLines == SelectSeq(stdout, LAMBDA e : e.ev \in {"PASSED", "FAILED"})

\* C13: whenever the execution summary has been printed, results holds
\* exactly five entries, one per step in pipeline order, all successful, and
\* the summary reports each of them as PASSED; no execution prints a FAILED
\* line.
C13_SummaryAllPassed ==
    /\ Printed("SUMMARY", "") =>
          /\ Len(results) = 5
          /\ \A i \in 1..5 : results[i] = [name |-> steps[i].name, success |-> TRUE]
          /\ SummaryLines = [i \in 1..5 |-> Event("PASSED", steps[i].name)]
    /\ \A i \in 1..Len(stdout) : stdout[i].ev # "FAILED"
    /\ (pc = "loop" /\ step > Len(steps)) =>
          /\ Len(results) = 5
          /\ \A i \in 1..5 : results[i].success

\* a run that printed its summary
C13_Witness ==
    /\ pc = "done"
    /\ Printed("SUMMARY", "")
    /\ Len(SummaryLines) = 5
    /\ exitCode = 0

\* the stage an entry of the page speaks of, read off its text
StageNames == <<"Stage 0 - Normal", "Stage 1 - Mild KC", "Stage 2 - Moderate KC",
                "Stage 3 - Advanced KC", "Stage 4 - Severe KC">>
StageColours == <<"#28a745", "#17a2b8", "#ffc107", "#fd7e14", "#dc3545">>
StageSigns == <<"Clear cornea with normal thickness and visual acuity",
                "Fleischer's ring may be present, mild corneal thinning",
                "Fleischer's ring and Vogt's striae, evident thinning",
                "Munson's sign, significant thinning with faint scarring",
                "Corneal scarring and opacities, evident Munson's sign">>
StageAdvice ==
    <<"Normal cornea. Regular follow-up recommended.",
      "Mild KC. Consider corneal cross-linking consultation. Spectacles or soft contact lenses.",
      "Moderate KC. Corneal cross-linking recommended. Rigid contact lenses may be needed.",
      "Advanced KC. Corneal cross-linking and specialty contact lenses. Consider surgical options.",
      "Severe KC. Surgical intervention likely required (corneal ring implant or transplant).">>
\* the stages whose table entry is the text
StagesOf(table, text) == {s \in 0..4 : table[s + 1] = text}

\* C14: a rendered prediction p is one of 0..4, and the name, description
\* and colour of the severity box, the recommendation beside it and the
\* gauge all are those of stage p; get_severity_info returns the entry of
\* stage s for s in 0..4 and the entry of stage 0 for any other value.
C14_SeverityConsistent ==
    /\ page.outcome = "results" =>
          /\ page.prediction \in 0..4
          /\ page.severity = get_severity_info(page.prediction)
          /\ StagesOf(StageNames, page.severity.name) = {page.prediction}
          /\ StagesOf(StageSigns, page.severity.description) = {page.prediction}
          /\ StagesOf(StageColours, page.severity.color) = {page.prediction}
          /\ StagesOf(StageAdvice, page.recommendation) = {page.prediction}
          /\ page.gauge = page.prediction
    /\ \A s \in (0 - MaxStage)..MaxStage :
          LET e == IF s \in 0..4 THEN s ELSE 0
              i == get_severity_info(s)
          IN  /\ i.name = StageNames[e + 1]
              /\ i.description = StageSigns[e + 1]
              /\ i.color = StageColours[e + 1]

\* stage 3 predicted and rendered
C14_Witness ==
    /\ page.outcome = "results"
    /\ page.prediction = 3
    /\ page.severity.name = "Stage 3 - Advanced KC"
    /\ page.recommendation = StageAdvice[4]
    /\ "recommendation" \in Range(page.rendered)

\* the files a step reads
ReadBy(k) ==
    IF k = 2 THEN {RawCsv}
    ELSE IF k = 3 THEN {PreCsv}
    ELSE IF k = 4 THEN {SelCsv}
    ELSE IF k = 5 THEN {RawCsv, ModelPkl}
    ELSE {}
\* the working directory had neither data/ nor models/ before the first run
\* (the pipeline itself creates data and data/raw only)
StartedWithoutDirs == dirs \subseteq {"data", "data/raw"}

\* C15 (as claimed): every file a started step reads was written by an
\* earlier step of the same run, and, no operation being made to fail, a
\* pipeline started in a working directory without data/ and models/ has no
\* failing step: every directory a step writes into exists.
C15_RunsFromEmptyDirectory ==
    /\ \A k \in 1..Len(steps) :
          (run > 0 /\ Printed("STEP", steps[k].name)) =>
             \A p \in ReadBy(k) : WrittenNow(p) /\ WriterStep(p) < k
    /\ StartedWithoutDirs =>
          \A k \in 1..Len(steps) : ~Printed("failed", steps[k].name)

\* C16: a failure while drawing or saving the pairplot does not fail the
\* feature-selection step.  About to run, the step returns with the plot
\* failing exactly when it returns with the plot drawn, and leaves the same
\* selected-features file and no picture; once the selected-features file is
\* written the step is reported completed, not failed, whether or not the
\* picture was saved, and the training step is the next to start.
C16_PlotFailureSwallowed ==
    /\ (pc = "loop" /\ step = 3) =>
          LET failing == FeatureSelectionMain(World, "plot")
              drawing == FeatureSelectionMain(World, "none")
          IN  /\ failing.ok = drawing.ok
              /\ failing.w.fs[SelCsv] = drawing.w.fs[SelCsv]
              /\ failing.w.fs[PairplotPng] = fs[PairplotPng]
              /\ failing.ok => (failing.w.fs[SelCsv].writer = run)
    /\ (Printed("STEP", steps[3].name) /\ WrittenNow(SelCsv)) =>
          /\ Completed(3)
          /\ ~Printed("failed", steps[3].name)
    /\ (Completed(3) /\ ~WrittenNow(PairplotPng)) =>
          /\ WrittenNow(SelCsv)
          /\ \/ pc = "loop" /\ step = 4
             \/ Printed("STEP", steps[4].name)

\* the plot failed in a run that could have saved it, and training started
C16_Witness ==
    /\ Completed(3)
    /\ CanWrite(dirs, PairplotPng)
    /\ ~Exists(fs, PairplotPng)
    /\ WrittenNow(SelCsv)
    /\ Printed("STEP", steps[4].name)
====
